---- MODULE Spec2Model ----
(***************************************************************************)
(* The privacy-first chat relay of write-it-down-backend: the handlers of  *)
(* POST /api/chat, POST /admin/login, GET /admin/account, GET /admin/usage *)
(* and the verifyAdminSession middleware, as one state machine.  Every     *)
(* handler is one action: the server keeps no state between requests, so   *)
(* the state is the static configuration, the wall clock, and what the     *)
(* last request was and produced (response, outbound call, log line).      *)
(*                                                                         *)
(* Conventions.  A text whose characters matter (user names, tokens,       *)
(* timestamps, toFixed output) is a sequence of character codes; a text    *)
(* that is only compared or carried is a TLA+ string (Txt and Str below).  *)
(* A base64 text is a sequence of alphabet positions 0..63, with Pad for   *)
(* "=" and NotB64 for any character outside the alphabet.  A JS value that *)
(* may be undefined, null, a number or a text is a record tagged by its    *)
(* only field name.  Numbers are integers: usage and limit are whole       *)
(* amounts, so toFixed rounds an exact quotient.                           *)
(* The clock counts milliseconds from a reference instant (only            *)
(* differences of Date.now() matter to the code).  Decimal numbers of the  *)
(* chat body (temperature, top_p) are counted in tenths.                   *)
(***************************************************************************)
EXTENDS Integers, Sequences, FiniteSets, TLC

----------------------------------------------------------------------------
(* JS values *)

Undefined == [undef |-> TRUE]
Null == [null |-> TRUE]
NaN == [nan |-> TRUE]
Num(n) == [num |-> n]
Str(s) == [str |-> s]
Txt(t) == [txt |-> t]
Bool(b) == [bool |-> b]

IsNum(v) == DOMAIN v = {"num"}
IsStr(v) == DOMAIN v = {"str"}
IsTxt(v) == DOMAIN v = {"txt"}
IsBool(v) == DOMAIN v = {"bool"}

\* ToBoolean of a tagged value: undefined, null, NaN, 0 and "" are falsy.
Truthy(v) ==
    /\ v # Undefined
    /\ v # Null
    /\ v # NaN
    /\ (IsNum(v) => v.num # 0)
    /\ (IsStr(v) => v.str # "")
    /\ (IsTxt(v) => v.txt # <<>>)
    /\ (IsBool(v) => v.bool)

\* a || b
OrElse(a, b) == IF Truthy(a) THEN a ELSE b

\* obj.key of a parsed JSON object: undefined when the key is absent.
Get(obj, key) == IF key \in DOMAIN obj THEN obj[key] ELSE Undefined

----------------------------------------------------------------------------
(* Character-level texts *)

Colon == 58
Dot == 46
Digit0 == 48
Replacement == 65533

IndexOf(s, c) ==
    IF \E i \in 1..Len(s) : s[i] = c
    THEN CHOOSE i \in 1..Len(s) : s[i] = c /\ \A j \in 1..(i - 1) : s[j] # c
    ELSE 0

\* String.prototype.split(sep) for a one-character separator.
RECURSIVE Split(_, _)
Split(s, c) ==
    LET i == IndexOf(s, c) IN
    IF i = 0 THEN <<s>>
    ELSE <<SubSeq(s, 1, i - 1)>> \o Split(SubSeq(s, i + 1, Len(s)), c)

\* Number -> decimal text, as a template literal or String(n) gives it for a
\* non-negative integer.
RECURSIVE ToDecimal(_)
ToDecimal(n) ==
    IF n < 10 THEN <<Digit0 + n>>
    ELSE ToDecimal(n \div 10) \o <<Digit0 + (n % 10)>>

IsWhite(c) == c \in {9, 10, 11, 12, 13, 32}

RECURSIVE TrimLeft(_)
TrimLeft(s) ==
    IF Len(s) > 0 /\ IsWhite(s[1]) THEN TrimLeft(Tail(s)) ELSE s

\* The value of character c as a digit of the radix, or -1.
DigitValue(c, radix) ==
    LET v == IF c \in 48..57 THEN c - 48
             ELSE IF c \in 97..122 THEN c - 97 + 10
             ELSE IF c \in 65..90 THEN c - 65 + 10
             ELSE -1
    IN IF v < radix THEN v ELSE -1

RECURSIVE DigitPrefix(_, _, _)
DigitPrefix(s, radix, acc) ==
    IF Len(s) = 0 \/ DigitValue(s[1], radix) < 0 THEN acc
    ELSE DigitPrefix(Tail(s), radix, acc * radix + DigitValue(s[1], radix))

\* parseInt(v) with no radix argument: the argument is converted to a string
\* (undefined becomes "undefined"), leading white space and one sign are
\* skipped, a 0x/0X prefix selects radix 16, and the longest prefix of digits
\* is the value; NaN when there is no digit.
ParseInt(v) ==
    IF ~IsTxt(v) THEN NaN
    ELSE
      LET t == TrimLeft(v.txt)
          neg == Len(t) > 0 /\ t[1] = 45
          u == IF Len(t) > 0 /\ t[1] \in {43, 45} THEN Tail(t) ELSE t
          hex == Len(u) >= 2 /\ u[1] = 48 /\ u[2] \in {120, 88}
          radix == IF hex THEN 16 ELSE 10
          d == IF hex THEN SubSeq(u, 3, Len(u)) ELSE u
      IN IF Len(d) = 0 \/ DigitValue(d[1], radix) < 0 THEN NaN
         ELSE Num((IF neg THEN -1 ELSE 1) * DigitPrefix(d, radix, 0))

----------------------------------------------------------------------------
(* base64 *)

Pad == 64
NotB64 == 65

\* Buffer.from(text).toString("base64"): three bytes become four sextets, a
\* last group of one or two bytes is padded with "=".
RECURSIVE Base64Encode(_)
Base64Encode(b) ==
    IF Len(b) = 0 THEN <<>>
    ELSE IF Len(b) = 1 THEN
        <<b[1] \div 4, (b[1] % 4) * 16, Pad, Pad>>
    ELSE IF Len(b) = 2 THEN
        <<b[1] \div 4, (b[1] % 4) * 16 + (b[2] \div 16), (b[2] % 16) * 4, Pad>>
    ELSE
        <<b[1] \div 4, (b[1] % 4) * 16 + (b[2] \div 16),
          (b[2] % 16) * 4 + (b[3] \div 64), b[3] % 64>>
        \o Base64Encode(SubSeq(b, 4, Len(b)))

\* The sextets Node's decoder reads: characters outside the alphabet are
\* skipped and the first "=" ends the input.
RECURSIVE Sextets(_)
Sextets(t) ==
    IF Len(t) = 0 \/ t[1] = Pad THEN <<>>
    ELSE IF t[1] < Pad THEN <<t[1]>> \o Sextets(Tail(t))
    ELSE Sextets(Tail(t))

RECURSIVE DecodeGroups(_)
DecodeGroups(s) ==
    IF Len(s) < 2 THEN <<>>
    ELSE IF Len(s) = 2 THEN <<s[1] * 4 + (s[2] \div 16)>>
    ELSE IF Len(s) = 3 THEN
        <<s[1] * 4 + (s[2] \div 16), (s[2] % 16) * 16 + (s[3] \div 4)>>
    ELSE
        <<s[1] * 4 + (s[2] \div 16), (s[2] % 16) * 16 + (s[3] \div 4),
          (s[3] % 4) * 64 + s[4]>>
        \o DecodeGroups(SubSeq(s, 5, Len(s)))

\* Buffer.from(token, "base64"): never throws for a string argument.
Base64Decode(t) == DecodeGroups(Sextets(t))

\* Buffer.prototype.toString(): UTF-8 decoding; a byte outside ASCII never
\* decodes to an ASCII character (it is shown here as U+FFFD).
Utf8ToString(b) == [i \in 1..Len(b) |-> IF b[i] < 128 THEN b[i] ELSE Replacement]

----------------------------------------------------------------------------
(* JSON texts.  A text either is JSON, and then has a value and a surface  *)
(* form (compact, or with white space between tokens), or is not JSON.     *)
(* Parsing keeps the value and drops the surface form; JSON.stringify      *)
(* writes the compact form.                                                *)

JsonText(v, spaced) == [json |-> v, spaced |-> spaced]
RawText(s) == [raw |-> s]

JsonParses(t) == "json" \in DOMAIN t
JsonParse(t) == t.json
JsonStringify(v) == JsonText(v, FALSE)

\* JSON.stringify of an object literal: a property whose value is undefined
\* is left out.
StringifyObject(o) ==
    JsonStringify([k \in {x \in DOMAIN o : o[x] # Undefined} |-> o[k]])

EmptyObject == [k \in {} |-> Null]

----------------------------------------------------------------------------
(* State *)

VARIABLES
    env,        \* process.env, read-only after start
    now,        \* Date.now()
    ticks,      \* how many times the clock has advanced
    req,        \* the request last handled
    upstream,   \* what the upstream provider answered to it, NoCall if not asked
    outbound,   \* the fetch calls made on its behalf
    res,        \* the response sent
    logs,       \* the console.error lines written while handling it
    callCount,  \* history: upstream calls made since start
    authed,     \* history: requests to an upstream-calling route that passed
                \* its authentication since start
    issued      \* history: the tokens login has returned, with their instants

vars == <<env, now, ticks, req, upstream, outbound, res, logs,
          callCount, authed, issued>>

\* Bounds of the exploration.
MaxTicks == 2
MaxCalls == 3
MaxIssued == 2

\* The clock advances by one second, by 23h59m or by 24h.
TickSteps == {1000, 86340000, 86400000}

----------------------------------------------------------------------------
(* Configuration and inputs *)

UserAdm == <<97, 100, 109>>          \* "adm"
UserBob == <<98, 111, 98>>           \* "bob"
UserColon == <<97, 58, 98>>          \* "a:b"

Environments ==
    { [ FRONTEND_API_KEY |-> Str("frontend-secret"),
        OPENROUTER_API_KEY |-> "sk-or-v1-server-key",
        API_URL |-> "https://openrouter.ai/api/v1/chat/completions",
        MODEL |-> Str("some/model"),
        ADMIN_USERNAME |-> Txt(u),
        ADMIN_PASSWORD |-> Str("admin-password") ] : u \in {UserAdm, UserColon} }

KeyInfoUrl == "https://openrouter.ai/api/v1/auth/key"

\* x-api-key header values: absent, empty, wrong, right.
ApiKeyHeaders ==
    {Undefined, Str(""), Str("frontend-secre"), Str("frontend-secret")}

Messages1 == [list |-> <<[role |-> "user", content |-> "dear diary"]>>]
Messages2 == [list |-> <<[role |-> "user", content |-> "my secret"]>>]
MessagesSet == {Messages1, Messages2}

\* Chat request bodies as express.json() hands them over (req.body is an
\* object; a key the caller left out is absent).
ChatBodies ==
    { EmptyObject,
      [messages |-> Messages1],
      [messages |-> Messages2, temperature |-> Num(2), top_p |-> Num(5)],
      [messages |-> Messages1, temperature |-> Num(0), top_p |-> Num(0)],
      [messages |-> Messages2, temperature |-> Null] }

LoginBodies ==
    { EmptyObject,
      [username |-> Txt(UserAdm), password |-> Str("admin-password")],
      [username |-> Txt(UserColon), password |-> Str("admin-password")],
      [username |-> Txt(UserAdm), password |-> Str("guess")],
      [username |-> Txt(UserBob), password |-> Str("admin-password")],
      [username |-> Txt(UserAdm)] }

\* Bearer tokens a caller may present: what login issues (user, ":", decimal
\* time) for several users and times, and malformed ones.
TokenTexts ==
    { UserAdm \o <<Colon>> \o ToDecimal(0),
      UserColon \o <<Colon>> \o ToDecimal(0),
      UserBob \o <<Colon>> \o ToDecimal(0),
      UserAdm,                                         \* no colon
      UserAdm \o <<Colon, 120, 121>>,                  \* "adm:xy"
      UserAdm \o <<Colon, 49, 50, 97>>,                \* "adm:12a"
      UserAdm \o <<Colon, 48, Colon, 122>> }           \* "adm:0:z"

Tokens ==
    {Base64Encode(t) : t \in TokenTexts}
    \cup { <<>>,                                       \* "Bearer " alone
           <<NotB64, NotB64, NotB64>>,                 \* "!!!"
           <<24, NotB64, 22, 17, 45, 14, 35, 0>> }     \* "Y!WRtOjA": a stray character

\* Authorization header values: absent, or the text scheme, then " " and a
\* word for each element of rest (what split(" ") gives).
AuthHeader(scheme, rest) == [scheme |-> scheme, rest |-> rest]

AuthHeaders ==
    { Undefined,
      AuthHeader("", <<>>),
      AuthHeader("Bearer", <<>>),
      AuthHeader("bearer", <<Base64Encode(UserAdm \o <<Colon>> \o ToDecimal(0))>>),
      AuthHeader("Basic", <<Base64Encode(UserAdm \o <<Colon>> \o ToDecimal(0))>>) }
    \cup {AuthHeader("Bearer", <<t>>) : t \in Tokens}

\* What the upstream provider may do with a call: the network call fails, or
\* it answers with a status and a body.
NetworkError == [kind |-> "error", message |-> "fetch failed"]
Response(status, body) == [kind |-> "response", status |-> status, body |-> body]
NoCall == [kind |-> "none"]

Completion == [id |-> Str("gen-1"), choices |-> Str("Hello")]
UpstreamError == [error |-> Str("rate limited, key sk-or-v1-server-key")]

ChatOutcomes ==
    { NetworkError,
      Response(200, JsonText(Completion, FALSE)),
      Response(200, JsonText(Completion, TRUE)),
      Response(201, JsonText(Completion, FALSE)),
      Response(200, RawText("<html>Bad gateway</html>")),
      Response(429, JsonText(UpstreamError, FALSE)),
      Response(500, RawText("<html>Server error</html>")) }

KeyInfo(d) == [data |-> d]

KeyInfoOutcomes ==
    { NetworkError,
      Response(401, JsonText(UpstreamError, FALSE)),
      Response(200, RawText("<html>Bad gateway</html>")),
      Response(200, JsonText(Null, FALSE)),
      Response(200, JsonText(EmptyObject, FALSE)),
      Response(200, JsonText(KeyInfo([label |-> Str("diary"), usage |-> Num(50),
                                      limit |-> Num(200), is_free_tier |-> Bool(TRUE),
                                      rate_limit |-> [requests |-> Num(10)]]), TRUE)),
      Response(200, JsonText(KeyInfo([usage |-> Num(250), limit |-> Num(200)]), FALSE)),
      Response(200, JsonText(KeyInfo([usage |-> Num(2), limit |-> Num(3)]), FALSE)),
      Response(200, JsonText(KeyInfo([usage |-> Num(1), limit |-> Num(8)]), FALSE)),
      Response(200, JsonText(KeyInfo([usage |-> Num(5), limit |-> Null]), FALSE)),
      Response(200, JsonText(KeyInfo([limit |-> Num(0)]), FALSE)) }

AccountOutcomes ==
    { NetworkError,
      Response(401, JsonText(UpstreamError, FALSE)),
      Response(200, JsonText(Null, FALSE)),
      Response(200, JsonText(EmptyObject, FALSE)),
      Response(200, JsonText(KeyInfo([label |-> Str("diary"), usage |-> Num(50),
                                      limit |-> Num(200), is_free_tier |-> Bool(TRUE),
                                      rate_limit |-> [requests |-> Num(10)]]), TRUE)) }

----------------------------------------------------------------------------
(* What a handler produces: the response, the outbound calls, the log lines *)

Json(status, value) == [status |-> status, body |-> JsonStringify(value)]

Outcome(response, calls, lines) ==
    [res |-> response, outbound |-> calls, logs |-> lines]

\* The result of a try block: a value, or a thrown error with its message.
Return(v) == [threw |-> FALSE, value |-> v]
Throw(text, arg) == [threw |-> TRUE, message |-> [text |-> text, arg |-> arg]]

\* Variant: only 200 counts as success.
Ok_Only200(status) == status = 200

Ok(status) == status \in 200..299

\* Variant: the response.ok check is left out.
FetchJson_NoStatusCheck(outcome) ==
    IF outcome.kind = "error" THEN Throw(outcome.message, Undefined)
    ELSE IF ~JsonParses(outcome.body) THEN
        Throw("Unexpected token, is not valid JSON: ", Str(outcome.body.raw))
    ELSE Return(JsonParse(outcome.body))

\* await fetch(...), the response.ok check and await response.json(), as the
\* three upstream-calling handlers write them.
FetchJson(outcome) ==
    IF outcome.kind = "error" THEN Throw(outcome.message, Undefined)
    ELSE IF ~Ok(outcome.status) THEN
        Throw("OpenRouter API error: ", Num(outcome.status))
    ELSE IF ~JsonParses(outcome.body) THEN
        Throw("Unexpected token, is not valid JSON: ", Str(outcome.body.raw))
    ELSE Return(JsonParse(outcome.body))

----------------------------------------------------------------------------
(* POST /api/chat *)

DefaultTemperature == 8
DefaultTopP == 10

\* Variant: the default is taken with || instead of destructuring.
Default_WhenFalsy(v, d) == OrElse(v, d)

\* A destructuring default applies to undefined only.
Default(v, d) == IF v = Undefined THEN d ELSE v

\* Variant: only the presence of the header is checked.
ChatAuthorized_AnyKey(apiKey) == Truthy(apiKey)

ChatAuthorized(apiKey) ==
    ~(~Truthy(apiKey) \/ apiKey # env.FRONTEND_API_KEY)

ChatUpstreamBody(body) ==
    StringifyObject(
        [ model |-> env.MODEL,
          messages |-> Get(body, "messages"),
          temperature |-> Default(Get(body, "temperature"), Num(DefaultTemperature)),
          top_p |-> Default(Get(body, "top_p"), Num(DefaultTopP)) ])

ChatCall(body) ==
    [ url |-> env.API_URL,
      method |-> "POST",
      authorization |-> <<"Bearer ", env.OPENROUTER_API_KEY>>,
      body |-> ChatUpstreamBody(body) ]

ChatLogLine(message, time) ==
    [ label |-> "API Proxy Error (no user data logged):",
      timestamp |-> time,
      error |-> message,
      status |-> "unknown" ]

\* Variant: the catch also logs the request body.
ChatHandler_LogsRequest(apiKey, body, outcome, time) ==
    IF ~ChatAuthorized(apiKey)
    THEN Outcome(Json(401, [error |-> "Unauthorized"]), <<>>, <<>>)
    ELSE
      LET r == FetchJson(outcome) IN
      IF r.threw
      THEN Outcome(Json(500, [error |-> "Internal server error"]),
                   <<ChatCall(body)>>,
                   <<[ label |-> "API Proxy Error (no user data logged):",
                       timestamp |-> time,
                       error |-> r.message,
                       status |-> "unknown",
                       request |-> body ]>>)
      ELSE Outcome(Json(200, r.value), <<ChatCall(body)>>, <<>>)

ChatHandler(apiKey, body, outcome, time) ==
    IF ~ChatAuthorized(apiKey)
    THEN Outcome(Json(401, [error |-> "Unauthorized"]), <<>>, <<>>)
    ELSE
      LET r == FetchJson(outcome) IN
      IF r.threw
      THEN Outcome(Json(500, [error |-> "Internal server error"]),
                   <<ChatCall(body)>>,
                   <<ChatLogLine(r.message, time)>>)
      ELSE Outcome(Json(200, r.value), <<ChatCall(body)>>, <<>>)

----------------------------------------------------------------------------
(* POST /admin/login *)

LoginToken(username, time) ==
    Base64Encode(username.txt \o <<Colon>> \o ToDecimal(time))

\* Variant: the password is not compared.
CredentialsMatch_UsernameOnly(username, password) ==
    username = env.ADMIN_USERNAME

CredentialsMatch(username, password) ==
    username = env.ADMIN_USERNAME /\ password = env.ADMIN_PASSWORD

LoginHandler(body, time) ==
    LET username == Get(body, "username")
        password == Get(body, "password")
    IN IF CredentialsMatch(username, password)
       THEN Outcome(Json(200, [ success |-> TRUE,
                                token |-> LoginToken(username, time),
                                message |-> "Login successful" ]),
                    <<>>, <<>>)
       ELSE Outcome(Json(401, [success |-> FALSE, error |-> "Invalid credentials"]),
                    <<>>, <<>>)

----------------------------------------------------------------------------
(* verifyAdminSession *)

MaxAge == 24 * 60 * 60 * 1000

\* !authHeader
HeaderMissing(h) == h = Undefined \/ (h.scheme = "" /\ h.rest = <<>>)

\* Variant: any scheme word followed by a space passes.
StartsWithBearer_AnyScheme(h) == Len(h.rest) >= 1

\* authHeader.startsWith("Bearer ")
StartsWithBearer(h) == h.scheme = "Bearer" /\ Len(h.rest) >= 1

\* authHeader.split(" ")[1]
BearerToken(h) == h.rest[1]

\* const [username, timestamp] = decoded.split(":")
DecodedUsername(token) ==
    Txt(Split(Utf8ToString(Base64Decode(token)), Colon)[1])

DecodedTimestamp(token) ==
    LET parts == Split(Utf8ToString(Base64Decode(token)), Colon) IN
    IF Len(parts) >= 2 THEN Txt(parts[2]) ELSE Undefined

\* Date.now() - parseInt(timestamp): NaN when the timestamp is no number.
TokenAge(token, time) ==
    LET t == ParseInt(DecodedTimestamp(token)) IN
    IF IsNum(t) THEN Num(time - t.num) ELSE NaN

\* a < b on numbers: false when either is NaN.
LessThan(a, b) == IsNum(a) /\ IsNum(b) /\ a.num < b.num

\* Variant: tokenAge <= maxAge.
SessionValid_Inclusive(token, time) ==
    /\ DecodedUsername(token) = env.ADMIN_USERNAME
    /\ TokenAge(token, time) # NaN
    /\ TokenAge(token, time).num <= MaxAge

SessionValid(token, time) ==
    /\ DecodedUsername(token) = env.ADMIN_USERNAME
    /\ LessThan(TokenAge(token, time), Num(MaxAge))

\* Whether the try block of the middleware throws: Buffer.from of a string,
\* toString, split and parseInt do not.
DecodeThrows(token) == FALSE

\* next |-> TRUE: the guarded handler runs; otherwise res is the answer.
VerifyAdminSession(h, time) ==
    IF HeaderMissing(h) \/ ~StartsWithBearer(h)
    THEN [next |-> FALSE, res |-> Json(401, [error |-> "No valid session token"])]
    ELSE IF DecodeThrows(BearerToken(h))
    THEN [next |-> FALSE, res |-> Json(401, [error |-> "Invalid session token"])]
    ELSE IF SessionValid(BearerToken(h), time)
    THEN [next |-> TRUE]
    ELSE [next |-> FALSE, res |-> Json(401, [error |-> "Invalid or expired session"])]

----------------------------------------------------------------------------
(* GET /admin/account and GET /admin/usage *)

KeyInfoCall ==
    [ url |-> KeyInfoUrl,
      method |-> "GET",
      authorization |-> <<"Bearer ", env.OPENROUTER_API_KEY>> ]

\* data.data?.key; reading .data of null throws a TypeError.
DataThrows(data) == data = Null

Optional(data, key) ==
    LET d == Get(data, "data") IN
    IF d = Undefined \/ d = Null THEN Undefined ELSE Get(d, key)

\* The try block after the session check: fetch, then reshape.
KeyInfoJson(outcome) ==
    LET r == FetchJson(outcome) IN
    IF r.threw THEN r
    ELSE IF DataThrows(r.value)
    THEN Throw("Cannot read properties of null (reading 'data')", Undefined)
    ELSE r

AccountBody(data) ==
    [ success |-> TRUE,
      account |->
        [ label |-> OrElse(Optional(data, "label"), Str("Unknown")),
          usage |-> OrElse(Optional(data, "usage"), Num(0)),
          limit |-> OrElse(Optional(data, "limit"), Num(0)),
          is_free_tier |-> OrElse(Optional(data, "is_free_tier"), Bool(FALSE)),
          rate_limit |-> OrElse(Optional(data, "rate_limit"), EmptyObject) ] ]

\* Variant: a failed key-info call is made once more before giving up.
AccountHandler_RetryOnFailure(outcome) ==
    LET r == KeyInfoJson(outcome) IN
    IF r.threw
    THEN Outcome(Json(500, [success |-> FALSE, error |-> "Failed to fetch account info"]),
                 <<KeyInfoCall, KeyInfoCall>>,
                 <<[label |-> "Admin Account Error:", error |-> r.message]>>)
    ELSE Outcome(Json(200, AccountBody(r.value)), <<KeyInfoCall>>, <<>>)

AccountHandler(outcome) ==
    LET r == KeyInfoJson(outcome) IN
    IF r.threw
    THEN Outcome(Json(500, [success |-> FALSE, error |-> "Failed to fetch account info"]),
                 <<KeyInfoCall>>,
                 <<[label |-> "Admin Account Error:", error |-> r.message]>>)
    ELSE Outcome(Json(200, AccountBody(r.value)), <<KeyInfoCall>>, <<>>)

Max(a, b) == IF a >= b THEN a ELSE b

TwoDigits(n) == <<Digit0 + (n \div 10), Digit0 + (n % 10)>>

\* (numer / denom).toFixed(2) for numer >= 0 and denom > 0: the quotient
\* rounded to hundredths, halves up, with exactly two decimals.
ToFixed2(numer, denom) ==
    LET h == (2 * 100 * numer + denom) \div (2 * denom) IN
    ToDecimal(h \div 100) \o <<Dot>> \o TwoDigits(h % 100)

PercentageUsed(usage, limit) ==
    IF limit > 0 THEN Txt(ToFixed2(usage * 100, limit)) ELSE Num(0)

UsageBody(data) ==
    LET usage == OrElse(Optional(data, "usage"), Num(0)).num
        limit == OrElse(Optional(data, "limit"), Num(0)).num
        remaining == limit - usage
    IN [ success |-> TRUE,
         usage |->
           [ used |-> Num(usage),
             limit |-> Num(limit),
             remaining |-> Num(Max(0, remaining)),
             percentage_used |-> PercentageUsed(usage, limit),
             currency |-> "USD" ] ]

UsageHandler(outcome) ==
    LET r == KeyInfoJson(outcome) IN
    IF r.threw
    THEN Outcome(Json(500, [success |-> FALSE, error |-> "Failed to fetch usage info"]),
                 <<KeyInfoCall>>,
                 <<[label |-> "Admin Usage Error:", error |-> r.message]>>)
    ELSE Outcome(Json(200, UsageBody(r.value)), <<KeyInfoCall>>, <<>>)

\* app.get(path, verifyAdminSession, handler)
Guarded(h, time, handled) ==
    LET v == VerifyAdminSession(h, time) IN
    IF v.next THEN handled ELSE Outcome(v.res, <<>>, <<>>)

----------------------------------------------------------------------------
(* Static routes *)

HealthBody(time) ==
    [status |-> "Privacy-first diary proxy is running", timestamp |-> time]

RootBody ==
    [ message |-> "Diary Assistant Privacy-First Proxy",
      endpoints |-> {"POST /api/chat", "GET /health", "POST /admin/login",
                     "GET /admin/account", "GET /admin/usage"},
      privacy |-> "No user data is stored or logged on this server" ]

----------------------------------------------------------------------------
(* The state machine *)

\* A request: the route, the two headers the handlers read, the parsed body
\* and the instant it is handled at.
Request(op, apiKey, authorization, body) ==
    [ op |-> op, apiKey |-> apiKey, authorization |-> authorization,
      body |-> body, at |-> now ]

Init ==
    /\ env \in Environments
    /\ now = 0
    /\ ticks = 0
    /\ req = Request("none", Undefined, Undefined, Undefined)
    /\ upstream = NoCall
    /\ outbound = <<>>
    /\ res = [status |-> 0, body |-> RawText("")]
    /\ logs = <<>>
    /\ callCount = 0
    /\ authed = 0
    /\ issued = {}

\* One request handled from arrival to response.  asked is what the
\* upstream would answer; it is recorded only when the handler called it.
Handle(request, asked, o) ==
    /\ req' = request
    /\ upstream' = IF o.outbound = <<>> THEN NoCall ELSE asked
    /\ outbound' = o.outbound
    /\ res' = o.res
    /\ logs' = o.logs
    /\ UNCHANGED <<env, now, ticks, callCount, authed, issued>>

Chat ==
    \E k \in ApiKeyHeaders, b \in ChatBodies, u \in ChatOutcomes :
        Handle(Request("chat", k, Undefined, b), u, ChatHandler(k, b, u, now))

Login ==
    \E b \in LoginBodies :
        Handle(Request("login", Undefined, Undefined, b), NoCall, LoginHandler(b, now))

Account ==
    \E h \in AuthHeaders, u \in AccountOutcomes :
        Handle(Request("account", Undefined, h, Undefined), u,
               Guarded(h, now, AccountHandler(u)))

Usage ==
    \E h \in AuthHeaders, u \in KeyInfoOutcomes :
        Handle(Request("usage", Undefined, h, Undefined), u,
               Guarded(h, now, UsageHandler(u)))

Health ==
    Handle(Request("health", Undefined, Undefined, Undefined), NoCall,
           Outcome(Json(200, HealthBody(now)), <<>>, <<>>))

Root ==
    Handle(Request("root", Undefined, Undefined, Undefined), NoCall,
           Outcome(Json(200, RootBody), <<>>, <<>>))

Tick ==
    /\ ticks < MaxTicks
    /\ \E d \in TickSteps : now' = now + d
    /\ ticks' = ticks + 1
    /\ UNCHANGED <<env, req, upstream, outbound, res, logs, callCount, authed, issued>>

Next == Chat \/ Login \/ Account \/ Usage \/ Health \/ Root \/ Tick

Spec == Init /\ [][Next]_vars

----------------------------------------------------------------------------
(* Sequences of requests.  Spec explores one request at a time over the    *)
(* full input sets and leaves the history variables as they start.         *)
(* HistorySpec runs the same handlers over sequences of requests, records  *)
(* the history, and lets an admin-data request present any token that a    *)
(* login of the same run has returned; its other inputs are fewer.         *)

HistoryApiKeys == {Str("frontend-secre"), Str("frontend-secret")}

HistoryChatBodies == {[messages |-> Messages1]}

HistoryChatOutcomes ==
    { Response(200, JsonText(Completion, FALSE)),
      Response(429, JsonText(UpstreamError, FALSE)) }

HistoryKeyInfoOutcomes ==
    { NetworkError,
      Response(200, JsonText(KeyInfo([usage |-> Num(50), limit |-> Num(200)]), FALSE)) }

HistoryLoginBodies ==
    { [username |-> Txt(UserAdm), password |-> Str("admin-password")],
      [username |-> Txt(UserColon), password |-> Str("admin-password")],
      [username |-> Txt(UserAdm), password |-> Str("guess")] }

HistoryAuthHeaders ==
    {Undefined, AuthHeader("Bearer", <<<<NotB64, NotB64, NotB64>>>>)}
    \cup {AuthHeader("Bearer", <<i.token>>) : i \in issued}

\* The tokens a login response hands out at the given instant.
Issues(o, time) ==
    IF o.res.status = 200 /\ "token" \in DOMAIN o.res.body.json
    THEN {[token |-> o.res.body.json.token, at |-> time]}
    ELSE {}

\* One request handled, and the history extended by it: passed says whether
\* the request is to an upstream-calling route and passed its authentication.
Record(request, asked, o, passed) ==
    /\ callCount + Len(o.outbound) <= MaxCalls
    /\ authed + (IF passed THEN 1 ELSE 0) <= MaxCalls
    /\ Cardinality(issued \cup Issues(o, now)) <= MaxIssued
    /\ req' = request
    /\ upstream' = IF o.outbound = <<>> THEN NoCall ELSE asked
    /\ outbound' = o.outbound
    /\ res' = o.res
    /\ logs' = o.logs
    /\ callCount' = callCount + Len(o.outbound)
    /\ authed' = authed + (IF passed THEN 1 ELSE 0)
    /\ issued' = issued \cup Issues(o, now)
    /\ UNCHANGED <<env, now, ticks>>

HistoryChat ==
    \E k \in HistoryApiKeys, b \in HistoryChatBodies, u \in HistoryChatOutcomes :
        Record(Request("chat", k, Undefined, b), u, ChatHandler(k, b, u, now),
               k = env.FRONTEND_API_KEY)

HistoryLogin ==
    \E b \in HistoryLoginBodies :
        Record(Request("login", Undefined, Undefined, b), NoCall,
               LoginHandler(b, now), FALSE)

HistoryAccount ==
    \E h \in HistoryAuthHeaders, u \in HistoryKeyInfoOutcomes :
        Record(Request("account", Undefined, h, Undefined), u,
               Guarded(h, now, AccountHandler(u)),
               VerifyAdminSession(h, now).next)

HistoryUsage ==
    \E h \in HistoryAuthHeaders, u \in HistoryKeyInfoOutcomes :
        Record(Request("usage", Undefined, h, Undefined), u,
               Guarded(h, now, UsageHandler(u)),
               VerifyAdminSession(h, now).next)

HistoryHealth ==
    Record(Request("health", Undefined, Undefined, Undefined), NoCall,
           Outcome(Json(200, HealthBody(now)), <<>>, <<>>), FALSE)

HistoryRoot ==
    Record(Request("root", Undefined, Undefined, Undefined), NoCall,
           Outcome(Json(200, RootBody), <<>>, <<>>), FALSE)

HistoryNext ==
    \/ HistoryChat \/ HistoryLogin \/ HistoryAccount \/ HistoryUsage
    \/ HistoryHealth \/ HistoryRoot \/ Tick

HistorySpec == Init /\ [][HistoryNext]_vars

----------------------------------------------------------------------------
(* Properties *)

AdminOps == {"account", "usage"}
UpstreamOps == {"chat", "account", "usage"}

\* The upstream answered with a status outside 200..299, or the call failed.
UpstreamFailed ==
    \/ upstream.kind = "error"
    \/ (upstream.kind = "response" /\ upstream.status \notin 200..299)

UpstreamSucceeded ==
    upstream.kind = "response" /\ upstream.status \in 200..299

\* C1: a POST /api/chat whose x-api-key is missing or differs from
\* FRONTEND_API_KEY is answered 401 {error: "Unauthorized"} and no upstream
\* call is made for it.
C1_WrongKeyRejected ==
    (req.op = "chat" /\ (req.apiKey = Undefined \/ req.apiKey # env.FRONTEND_API_KEY))
        => /\ res = Json(401, [error |-> "Unauthorized"])
           /\ outbound = <<>>
           /\ upstream = NoCall

C1_Witness ==
    /\ req.op = "chat"
    /\ req.apiKey = Str("frontend-secre")
    /\ "messages" \in DOMAIN req.body
    /\ res.status = 401
    /\ outbound = <<>>

\* C2 as stated: with the correct key and a success status from upstream, the
\* response is 200 and its body is exactly the upstream body.
C2_BodyExactlyUpstream ==
    (req.op = "chat" /\ req.apiKey = env.FRONTEND_API_KEY /\ UpstreamSucceeded)
        => (res.status = 200 /\ res.body = upstream.body)

\* C2, amended: with the correct key and a success status from upstream, if
\* the upstream body parses as JSON the response is 200 and its body is the
\* JSON serialisation of the parsed upstream body (the same JSON value, in
\* compact form); if it does not parse, the response is 500 {error:
\* "Internal server error"}.
C2_RelaysParsedBody ==
    (req.op = "chat" /\ req.apiKey = env.FRONTEND_API_KEY /\ UpstreamSucceeded)
        => IF "json" \in DOMAIN upstream.body
           THEN /\ res.status = 200
                /\ "json" \in DOMAIN res.body
                /\ res.body.json = upstream.body.json
                /\ res.body.spaced = FALSE
           ELSE res = Json(500, [error |-> "Internal server error"])

C2_Witness ==
    /\ req.op = "chat"
    /\ upstream = Response(201, JsonText(Completion, FALSE))
    /\ res.status = 200
    /\ res.body = upstream.body

\* C3: on each of the three upstream-calling routes, once the caller is
\* authenticated (the upstream was called), an upstream failure (non-success
\* status or network error) is answered 500 with the fixed message of the
\* route and nothing of the upstream status or body.
C3_GenericUpstreamFailure ==
    (req.op \in UpstreamOps /\ UpstreamFailed)
        => res = CASE req.op = "chat" ->
                        Json(500, [error |-> "Internal server error"])
                   [] req.op = "account" ->
                        Json(500, [success |-> FALSE,
                                   error |-> "Failed to fetch account info"])
                   [] req.op = "usage" ->
                        Json(500, [success |-> FALSE,
                                   error |-> "Failed to fetch usage info"])

C3_Witness ==
    /\ req.op = "account"
    /\ upstream = Response(401, JsonText(UpstreamError, FALSE))
    /\ res.status = 500
    /\ Len(logs) = 1

\* The text before the last colon of t, and the text after it.
LastColon(t) ==
    IF \E i \in 1..Len(t) : t[i] = Colon
    THEN CHOOSE i \in 1..Len(t) : t[i] = Colon /\ \A j \in (i + 1)..Len(t) : t[j] # Colon
    ELSE 0

\* C4: POST /admin/login with exactly the configured username and password
\* is answered 200 with success true and a token that is the base64 of
\* "<username>:<epoch millis of the call>", so that decoding it gives back
\* the submitted username and the time of the call; any other pair is
\* answered 401 {success: false, error: "Invalid credentials"}, without a
\* token.
C4_LoginIssuesToken ==
    req.op = "login" =>
        IF /\ "username" \in DOMAIN req.body
           /\ "password" \in DOMAIN req.body
           /\ req.body.username = env.ADMIN_USERNAME
           /\ req.body.password = env.ADMIN_PASSWORD
        THEN
          LET token == res.body.json.token
              text == Utf8ToString(Base64Decode(token))
              c == LastColon(text)
          IN /\ res.status = 200
             /\ res.body.json.success = TRUE
             /\ token = Base64Encode(req.body.username.txt \o <<Colon>> \o ToDecimal(req.at))
             /\ c > 0
             /\ SubSeq(text, 1, c - 1) = req.body.username.txt
             /\ ParseInt(Txt(SubSeq(text, c + 1, Len(text)))) = Num(req.at)
        ELSE
          /\ res = Json(401, [success |-> FALSE, error |-> "Invalid credentials"])
          /\ "token" \notin DOMAIN res.body.json

C4_Witness ==
    /\ req.op = "login"
    /\ req.at = 86401000
    /\ res.status = 200
    /\ res.body.json.token = Base64Encode(UserAdm \o <<Colon>> \o ToDecimal(86401000))

\* The bearer token of the request, when its Authorization header is the
\* word Bearer, a space and more.
HasBearer ==
    /\ req.authorization # Undefined
    /\ req.authorization.scheme = "Bearer"
    /\ req.authorization.rest # <<>>

\* The guarded handler ran: both guarded handlers start with the upstream call.
OperationRan == outbound # <<>>

\* The decoded token reads username:timestamp..., the username is the
\* configured one and the timestamp is less than 24 hours before the request.
DecodesToFreshAdmin(token, at) ==
    LET text == Utf8ToString(Base64Decode(token))
        i == IndexOf(text, Colon)
        after == SubSeq(text, i + 1, Len(text))
        j == IndexOf(after, Colon)
        stamp == IF j = 0 THEN after ELSE SubSeq(after, 1, j - 1)
    IN /\ i > 0
       /\ Txt(SubSeq(text, 1, i - 1)) = env.ADMIN_USERNAME
       /\ ParseInt(Txt(stamp)) # NaN
       /\ at - ParseInt(Txt(stamp)).num < 24 * 60 * 60 * 1000

\* C5: an admin-data request carrying Authorization: Bearer <token> runs the
\* guarded operation if and only if the token decodes to username:timestamp
\* with the configured admin username and now - timestamp < 24h, and is
\* answered 401 otherwise; a token aged 24h + 1s or exactly 24h is
\* rejected, one aged 23h59m is accepted.
C5_SessionWindow ==
    (req.op \in AdminOps /\ HasBearer) =>
        LET token == req.authorization.rest[1] IN
        /\ OperationRan <=> DecodesToFreshAdmin(token, req.at)
        /\ ~OperationRan => res.status = 401
        /\ (/\ token = Base64Encode(env.ADMIN_USERNAME.txt \o <<Colon>> \o ToDecimal(0))
            /\ IndexOf(env.ADMIN_USERNAME.txt, Colon) = 0)
           => /\ req.at = 86340000 => OperationRan
              /\ req.at = 86400000 => ~OperationRan
              /\ req.at = 86401000 => ~OperationRan

C5_Witness ==
    /\ req.op = "usage"
    /\ HasBearer
    /\ req.authorization.rest[1] = Base64Encode(UserAdm \o <<Colon>> \o ToDecimal(0))
    /\ req.at = 86340000
    /\ OperationRan
    /\ res.status = 200

\* The Authorization header is missing, empty, or does not start with
\* "Bearer ".
NoBearerHeader ==
    \/ req.authorization = Undefined
    \/ req.authorization.scheme # "Bearer"
    \/ req.authorization.rest = <<>>

\* C6 as stated: an admin-data request whose Authorization header is missing
\* or not of the form Bearer <token> fails with Unauthorized (401), the
\* guarded operation is not invoked and no upstream call is attempted.
C6_FailsWithUnauthorized ==
    (req.op \in AdminOps /\ NoBearerHeader)
        => /\ res = Json(401, [error |-> "Unauthorized"])
           /\ ~OperationRan
           /\ upstream = NoCall

\* C6, amended: an admin-data request whose Authorization header is missing,
\* empty or does not start with "Bearer " is answered 401 {error: "No valid
\* session token"}, the guarded operation is not invoked and no upstream
\* call is attempted.
C6_NoValidSessionToken ==
    (req.op \in AdminOps /\ NoBearerHeader)
        => /\ res = Json(401, [error |-> "No valid session token"])
           /\ ~OperationRan
           /\ upstream = NoCall
           /\ logs = <<>>

C6_Witness ==
    /\ req.op = "account"
    /\ req.authorization = AuthHeader("Basic", <<Base64Encode(UserAdm \o <<Colon>> \o ToDecimal(0))>>)
    /\ res.status = 401
    /\ ~OperationRan

\* A canonical base64 text: alphabet characters, then at most two "=", in
\* groups of four.
IsBase64(t) ==
    /\ Len(t) % 4 = 0
    /\ \A i \in 1..Len(t) :
          \/ t[i] < Pad
          \/ (t[i] = Pad /\ i >= Len(t) - 1 /\ \A j \in i..Len(t) : t[j] = Pad)

\* C7: a bearer token that fails verification is answered 401, with the
\* message "Invalid session token" when decoding the token itself failed and
\* "Invalid or expired session" when it decoded but the username or age
\* check failed; whatever the token text, the answer is a 401.
C7_DistinguishingMessages ==
    (req.op \in AdminOps /\ HasBearer /\ ~OperationRan) =>
        /\ res.status = 401
        /\ res.body.json.error =
             IF IsBase64(req.authorization.rest[1])
             THEN "Invalid or expired session"
             ELSE "Invalid session token"

\* The key-info fields the usage reader reads, each 0 when absent or null.
KeyInfoField(key) ==
    LET data == upstream.body.json
        d == IF "data" \in DOMAIN data THEN data.data ELSE EmptyObject
    IN IF key \in DOMAIN d /\ "num" \in DOMAIN d[key] THEN d[key].num ELSE 0

\* The text is the decimal, with exactly two decimals, nearest to
\* 100 * usage / limit.
IsPercentage(text, usage, limit) ==
    \E h \in 0..20000 :
        /\ 2 * h * limit - 2 * 10000 * usage <= limit
        /\ 2 * 10000 * usage - 2 * h * limit <= limit
        /\ text = ToDecimal(h \div 100) \o <<Dot>>
                    \o <<Digit0 + ((h % 100) \div 10), Digit0 + (h % 10)>>

UsageSucceeded ==
    /\ req.op = "usage"
    /\ OperationRan
    /\ UpstreamSucceeded
    /\ "json" \in DOMAIN upstream.body
    /\ upstream.body.json # Null

\* C8: an authenticated GET /admin/usage whose upstream call succeeds with
\* key-info {usage, limit} answers used = usage, limit = limit, remaining =
\* max(0, limit - usage), currency "USD" and percentage_used = usage / limit
\* * 100 to two decimals when limit > 0 and 0 otherwise, a string in both
\* cases.
C8_UsageSummary ==
    UsageSucceeded =>
        LET usage == KeyInfoField("usage")
            limit == KeyInfoField("limit")
            out == res.body.json.usage
        IN /\ res.status = 200
           /\ out.used = Num(usage)
           /\ out.limit = Num(limit)
           /\ out.remaining = Num(IF limit - usage > 0 THEN limit - usage ELSE 0)
           /\ out.currency = "USD"
           /\ "txt" \in DOMAIN out.percentage_used
           /\ limit > 0 => IsPercentage(out.percentage_used.txt, usage, limit)

\* The part of C8 that holds of the code: the same summary, where
\* percentage_used is the two-decimal string when limit > 0 and the number 0
\* otherwise.
C8_UsageSummaryMixedType ==
    UsageSucceeded =>
        LET usage == KeyInfoField("usage")
            limit == KeyInfoField("limit")
            out == res.body.json.usage
        IN /\ res.status = 200
           /\ out.used = Num(usage)
           /\ out.limit = Num(limit)
           /\ out.remaining = Num(IF limit - usage > 0 THEN limit - usage ELSE 0)
           /\ out.currency = "USD"
           /\ IF limit > 0
              THEN /\ "txt" \in DOMAIN out.percentage_used
                   /\ IsPercentage(out.percentage_used.txt, usage, limit)
              ELSE out.percentage_used = Num(0)

\* C9: an authenticated POST /api/chat sends upstream the body {model,
\* messages, temperature, top_p}: the configured model, the caller's
\* messages unchanged, and the caller's temperature and top_p when the
\* request body has them, else 0.8 and 1.
C9_ForwardedBody ==
    (req.op = "chat" /\ req.apiKey = env.FRONTEND_API_KEY) =>
        /\ Len(outbound) = 1
        /\ LET sent == outbound[1].body.json IN
           /\ DOMAIN sent =
                {"model", "temperature", "top_p"}
                \cup (IF "messages" \in DOMAIN req.body THEN {"messages"} ELSE {})
           /\ sent.model = env.MODEL
           /\ "messages" \in DOMAIN req.body => sent.messages = req.body.messages
           /\ sent.temperature =
                IF "temperature" \in DOMAIN req.body
                THEN req.body.temperature ELSE Num(8)
           /\ sent.top_p =
                IF "top_p" \in DOMAIN req.body THEN req.body.top_p ELSE Num(10)

C9_Witness ==
    /\ req.op = "chat"
    /\ req.body = [messages |-> Messages1, temperature |-> Num(0), top_p |-> Num(0)]
    /\ Len(outbound) = 1
    /\ outbound[1].body.json.temperature = Num(0)
    /\ outbound[1].body.json.top_p = Num(0)

\* The request body with other messages.
WithMessages(body, m) ==
    [k \in DOMAIN body |-> IF k = "messages" THEN m ELSE body[k]]

\* What the chat handler did with the last request, had its messages been m
\* and everything else (key, other fields, upstream outcome, instant) the same.
ChatRerun(m) ==
    ChatHandler(req.apiKey, WithMessages(req.body, m), upstream, req.at)

\* C10: no message content reaches a log line or an error response: two
\* /api/chat requests that differ only in their messages and get the same
\* upstream outcome produce the same log lines and the same response; a log
\* line is written on failure only and holds the error message, a timestamp
\* and a status.
C10_MessagesDoNotLeak ==
    req.op = "chat" =>
        /\ \A m \in MessagesSet :
              /\ ChatRerun(m).logs = logs
              /\ ChatRerun(m).res = res
        /\ logs # <<>> => res.status = 500
        /\ res.status = 200 => logs = <<>>
        /\ \A i \in 1..Len(logs) :
              /\ DOMAIN logs[i] = {"label", "timestamp", "error", "status"}
              /\ logs[i].timestamp = req.at
              /\ logs[i].error.arg \in
                    {Undefined} \cup
                    (IF upstream.kind = "response"
                     THEN {Num(upstream.status)} \cup
                          (IF "raw" \in DOMAIN upstream.body
                           THEN {Str(upstream.body.raw)} ELSE {})
                     ELSE {})

C10_Witness ==
    /\ req.op = "chat"
    /\ "messages" \in DOMAIN req.body
    /\ req.body.messages = Messages2
    /\ upstream = Response(429, JsonText(UpstreamError, FALSE))
    /\ Len(logs) = 1
    /\ ChatRerun(Messages1).logs = logs
    /\ res.status = 500

\* The last request passed the authentication of its route: the shared
\* secret for chat, a bearer token of the configured admin less than 24
\* hours old for the admin-data routes.
PassedAuthentication ==
    \/ (req.op = "chat" /\ req.apiKey = env.FRONTEND_API_KEY)
    \/ (/\ req.op \in AdminOps
        /\ HasBearer
        /\ DecodesToFreshAdmin(req.authorization.rest[1], req.at))

\* C11: a request that passes authentication on an upstream-calling route
\* causes exactly one upstream call, never a second one after a failure;
\* every other request (rejected, login, /health, /) causes none; so over
\* any sequence of requests the number of upstream calls equals the number
\* of authenticated requests to those routes.
C11_OneCallPerAuthenticatedRequest ==
    /\ callCount = authed
    /\ Len(outbound) = IF PassedAuthentication THEN 1 ELSE 0
    /\ UpstreamFailed => Len(outbound) = 1

C11_Witness ==
    /\ callCount = 3
    /\ authed = 3
    /\ issued # {}
    /\ req.op = "account"
    /\ UpstreamFailed
    /\ Len(outbound) = 1

\* The last request is an admin-data request presenting a token that a
\* login of this run returned.
PresentsIssuedToken ==
    /\ req.op \in AdminOps
    /\ HasBearer
    /\ \E i \in issued : i.token = req.authorization.rest[1]

\* C12: a token returned by a successful login is accepted on every
\* admin-data call made less than 24 hours after it was issued, for every
\* configured admin username and whatever was requested in between, and is
\* rejected from 24 hours on.
C12_IssuedTokenWindow ==
    PresentsIssuedToken =>
        \A i \in issued :
            i.token = req.authorization.rest[1]
                => (OperationRan <=> req.at - i.at < 24 * 60 * 60 * 1000)

\* The part of C12 that holds of the code: the same, for a configured admin
\* username without ":".
C12_ColonFreeUserWindow ==
    (PresentsIssuedToken /\ IndexOf(env.ADMIN_USERNAME.txt, Colon) = 0) =>
        \A i \in issued :
            i.token = req.authorization.rest[1]
                => (OperationRan <=> req.at - i.at < 24 * 60 * 60 * 1000)

====
